---- MODULE Spec2Model ----
(***************************************************************************)
(* The chat orchestration engine of the task-management assistant:         *)
(*   - the in-memory session store   (backend/app/ai/sessions.py)          *)
(*   - the streaming tool-execution loop process_chat_stream               *)
(*                                    (backend/app/ai/agent.py)            *)
(* Strings are modelled as sequences of tokens, so that concatenation      *)
(* (full_content += fragment, arguments += fragment) is \o and the empty   *)
(* string is <<>>.  Time is counted in hours.                              *)
(***************************************************************************)
EXTENDS Integers, Sequences, FiniteSets, TLC

\* ------------------------------------------------------------------ bounds
MaxSessions == 3        \* ChatSession objects created in one behaviour
MaxTicks == 2           \* clock advances in one behaviour
MaxVariation == 2       \* steps off the plain path of one turn, in one behaviour: further
                        \* deltas, raising handlers, further requests, pauses
MaxStoreOps == 5        \* store operations that write and clock advances, in the store specification
MaxAppends == 25        \* store operations that write and clock advances, in the history specification
MaxOverlap == 1         \* steps off the plain path while two requests may be in flight
MaxFragments == 4       \* tool-call fragments delivered in one behaviour of the fragment specification
MaxSetup == 3           \* store operations that write and clock advances, next to requests without credentials

\* ------------------------------------------------------- program constants
max_iterations == 5     \* agent.py:108
HistoryCap == 21        \* sessions.py:42   len(self.messages) > 21
KeepRecent == 20        \* sessions.py:43   self.messages[-20:]
timeout_hours == 24     \* sessions.py:49
min_length == 1         \* models.py:13   ChatRequest.message, Field(min_length=1)
max_length == 1000      \* models.py:13   ChatRequest.message, Field(max_length=1000)
NoId == 0               \* session_id = None (or ""), sessions.py:59/73
NoIndex == -1           \* tc.index is None, agent.py:137

Users == {"alice", "bob"}
Procs == {"p1", "p2"}
None == <<"<None>">>
SYSTEM_PROMPT == <<"<system prompt>">>
TOOL_HANDLERS == {"create_task", "list_tasks", "update_task", "delete_task",
                  "mark_task_complete"}

VARIABLES
    _sessions,   \* the keys of the global dict _sessions (each maps to heap[key])
    heap,        \* the ChatSession objects alive, by their session_id
    nextId,      \* uuid4(): the next identifier never handed out before
    now,         \* datetime.utcnow(), in hours
    api_key,     \* settings.OPENAI_API_KEY is set
    _client,     \* the cached AsyncOpenAI client exists
    turn,        \* per request context: the frame of process_chat_stream, with the
                 \* events it has yielded and the handler calls it has made
    last,        \* the operation performed by the latest step, with its result
    ticks, turns, variation, ops   \* how much of each bound is used up

vars == <<_sessions, heap, nextId, now, api_key, _client, turn, last,
          ticks, turns, variation, ops>>

\* ============================================================ sessions.py

\* msg = {"role": role, "content": content}; msg["tool_calls"] only if truthy
Message(role, content, tool_calls) ==
    [role |-> role, content |-> content, tool_calls |-> tool_calls]

\* ChatSession.__init__
ChatSession(user_id, sid, t) ==
    [session_id |-> sid, user_id |-> user_id, messages |-> <<>>,
     created_at |-> t, last_activity |-> t]

add_message_keep_last(s, role, content, tool_calls, t) ==
    LET all == Append(s.messages, Message(role, content, tool_calls))
    IN  [s EXCEPT !.messages = IF Len(all) > HistoryCap
                               THEN SubSeq(all, Len(all) - KeepRecent, Len(all))
                               ELSE all,
                  !.last_activity = t]

add_message_stale(s, role, content, tool_calls, t) ==
    LET all == Append(s.messages, Message(role, content, tool_calls))
    IN  [s EXCEPT !.messages = IF Len(all) > HistoryCap
                               THEN <<all[1]>> \o
                                    SubSeq(all, Len(all) - KeepRecent + 1, Len(all))
                               ELSE all]

\* ChatSession.add_message
add_message(s, role, content, tool_calls, t) ==
    LET all == Append(s.messages, Message(role, content, tool_calls))
    IN  [s EXCEPT !.messages = IF Len(all) > HistoryCap
                               THEN <<all[1]>> \o
                                    SubSeq(all, Len(all) - KeepRecent + 1, Len(all))
                               ELSE all,
                  !.last_activity = t]

\* ChatSession.get_messages_for_api
get_messages_for_api(s) == s.messages

is_expired_at_limit(s, t) == t >= s.last_activity + timeout_hours

\* ChatSession.is_expired
is_expired(s, t) == t > s.last_activity + timeout_hours

_cleanup_expired_sessions_all(store, objs, t) == {}

\* _cleanup_expired_sessions: the keys that survive the sweep
_cleanup_expired_sessions(store, objs, t) ==
    {sid \in store : ~is_expired(objs[sid], t)}

get_or_create_session_no_owner_check(store, objs, user_id, session_id, fresh, t) ==
    LET kept == _cleanup_expired_sessions(store, objs, t)
    IN  IF /\ session_id # NoId
           /\ session_id \in kept
           /\ ~is_expired(objs[session_id], t)
        THEN [store |-> kept, objs |-> objs, session |-> session_id]
        ELSE [store |-> kept \cup {fresh},
              objs |-> (fresh :> ChatSession(user_id, fresh, t)) @@ objs,
              session |-> fresh]

get_or_create_session_unregistered(store, objs, user_id, session_id, fresh, t) ==
    LET kept == _cleanup_expired_sessions(store, objs, t)
    IN  IF /\ session_id # NoId
           /\ session_id \in kept
           /\ objs[session_id].user_id = user_id
           /\ ~is_expired(objs[session_id], t)
        THEN [store |-> kept, objs |-> objs, session |-> session_id]
        ELSE [store |-> kept,
              objs |-> (fresh :> ChatSession(user_id, fresh, t)) @@ objs,
              session |-> fresh]

\* get_or_create_session: the store and heap after the call, and the object returned
get_or_create_session(store, objs, user_id, session_id, fresh, t) ==
    LET kept == _cleanup_expired_sessions(store, objs, t)
    IN  IF /\ session_id # NoId
           /\ session_id \in kept
           /\ objs[session_id].user_id = user_id
           /\ ~is_expired(objs[session_id], t)
        THEN [store |-> kept, objs |-> objs, session |-> session_id]
        ELSE [store |-> kept \cup {fresh},
              objs |-> (fresh :> ChatSession(user_id, fresh, t)) @@ objs,
              session |-> fresh]

\* get_session: the key looked up, NoId for None
get_session(store, session_id) ==
    IF session_id \in store THEN session_id ELSE NoId

\* delete_session: the store after the call and the value returned
delete_session(store, session_id) ==
    IF session_id \in store
    THEN [store |-> store \ {session_id}, ret |-> TRUE]
    ELSE [store |-> store, ret |-> FALSE]

\* ============================================================== agent.py

\* json.loads on an arguments text.  The tokens of a text are "{", "}" and
\* members: "s" is a "status" member, "t" a "title" member, "u" a "user_id" member.
Members == {"s", "t", "u"}
KeyOf(m) == IF m = "s" THEN "status" ELSE IF m = "t" THEN "title" ELSE "user_id"

\* json.loads(text) returns (True) or raises JSONDecodeError (False); "" raises
json_parses(text) ==
    /\ Len(text) >= 2
    /\ text[1] = "{"
    /\ text[Len(text)] = "}"
    /\ \A i \in 2..(Len(text) - 1) : text[i] \in Members

\* json.loads(text) of a text that parses: the keys of the dict (values left out)
json_loads(text) == {KeyOf(text[i]) : i \in 2..(Len(text) - 1)}

\* the keyword parameters of the handlers besides user_id, and the required ones
Params(name) ==
    IF name = "create_task" THEN {"title", "description", "priority", "due_date"}
    ELSE IF name = "list_tasks" THEN {"status", "priority", "limit"}
    ELSE IF name = "update_task"
         THEN {"task_id", "title_search", "new_title", "new_description",
               "new_priority", "new_status", "new_due_date"}
    ELSE {"task_id", "title_search"}
Required(name) == IF name = "create_task" THEN {"title"} ELSE {}

\* handler(user_id=user_id, **args) binds its arguments (True) or raises TypeError
\* before the handler body runs: a repeated keyword user_id, an unknown keyword,
\* a missing required parameter
binds(name, args) ==
    /\ "user_id" \notin args
    /\ args \subseteq Params(name)
    /\ Required(name) \subseteq args

\* ------------------------------------------------------------ the frame
NoDelta == [content |-> None, tool_calls |-> <<>>]

IdleTurn ==
    [pc |-> "idle", user_id |-> "", message |-> <<>>, session_id |-> NoId,
     session |-> NoId, messages |-> <<>>, iteration |-> 0,
     full_content |-> <<>>, current_tools |-> <<>>, tool_calls_data |-> <<>>,
     tc |-> 0, delta |-> NoDelta, events |-> <<>>, invoked |-> <<>>, calls |-> 0]

\* yield f"data: {json.dumps(event)}\n\n"
Emit(f, ev) == [f EXCEPT !.events = Append(@, ev)]

FirstEvent_without_id(sid) == [type |-> "content", content |-> <<>>]

\* line 101: the first event, with the session's id
FirstEvent(sid) == [type |-> "content", content |-> <<>>, session_id |-> sid]
ContentEvent(c) == [type |-> "content", content |-> c]
ToolCallEvent(c) ==
    [type |-> "tool_call",
     tool_call |-> [id |-> c.id, name |-> c.name, arguments |-> json_loads(c.arguments)]]
ErrorEvent(e) == [type |-> "error", error |-> e]
DoneEvent == [type |-> "done"]

\* the tool results the loop itself produces, and a handler's own text
UnknownTool == <<"Unknown tool">>
ToolError == <<"Tool execution error">>
HandlerText == <<"handler text">>

\* the sessions some frame or the store still refers to
Referenced(store, frames) ==
    store \cup {frames[p].session : p \in {q \in Procs : frames[q].pc # "idle"}}
Live(objs, store, frames) ==
    [sid \in (DOMAIN objs) \cap Referenced(store, frames) |-> objs[sid]]

\* ----------------------------------------------- tool-call accumulation
Position(ct, index) ==
    IF \E i \in 1..Len(ct) : ct[i].index = index
    THEN CHOOSE i \in 1..Len(ct) : ct[i].index = index
    ELSE 0

accumulate_one_overwrite(ct, tc) ==
    IF tc.index = NoIndex THEN ct
    ELSE LET ct1 == IF Position(ct, tc.index) = 0
                    THEN Append(ct, [index |-> tc.index, id |-> "", name |-> "",
                                     arguments |-> <<>>])
                    ELSE ct
             i == Position(ct1, tc.index)
         IN  [ct1 EXCEPT ![i] =
                 [index |-> tc.index,
                  id |-> IF tc.id # "" THEN tc.id ELSE @.id,
                  name |-> IF tc.name # "" THEN tc.name ELSE @.name,
                  arguments |-> IF tc.arguments # <<>> THEN tc.arguments ELSE @.arguments]]

\* lines 137-146 for one tc of delta.tool_calls
accumulate_one(ct, tc) ==
    IF tc.index = NoIndex THEN ct
    ELSE LET ct1 == IF Position(ct, tc.index) = 0
                    THEN Append(ct, [index |-> tc.index, id |-> "", name |-> "",
                                     arguments |-> <<>>])
                    ELSE ct
             i == Position(ct1, tc.index)
         IN  [ct1 EXCEPT ![i] =
                 [index |-> tc.index,
                  id |-> IF tc.id # "" THEN tc.id ELSE @.id,
                  name |-> IF tc.name # "" THEN tc.name ELSE @.name,
                  arguments |-> @.arguments \o tc.arguments]]

RECURSIVE accumulate(_, _)
\* for tc in delta.tool_calls
accumulate(ct, tcs) ==
    IF tcs = <<>> THEN ct
    ELSE accumulate(accumulate_one(ct, Head(tcs)), Tail(tcs))

\* tool_calls_data = [... for t in current_tools.values()]
values(ct) ==
    [i \in 1..Len(ct) |-> [id |-> ct[i].id, name |-> ct[i].name,
                           arguments |-> ct[i].arguments]]

\* the assistant message with its tool-call list, lines 167-178
AssistantToolMessage(f) ==
    [role |-> "assistant",
     content |-> IF f.full_content # <<>> THEN f.full_content ELSE None,
     tool_calls |-> [i \in 1..Len(f.tool_calls_data) |->
                       [id |-> f.tool_calls_data[i].id, type |-> "function",
                        function |-> [name |-> f.tool_calls_data[i].name,
                                      arguments |-> f.tool_calls_data[i].arguments]]]]

\* the tool message, lines 203-207
ToolMessage(id, result) == [role |-> "tool", tool_call_id |-> id, content |-> result]

\* ------------------------------------------------- the steps of the loop
next_tool_call_unannounced(f) ==
    LET c == f.tool_calls_data[f.tc]
    IN  IF json_parses(c.arguments)
        THEN [f EXCEPT !.pc = "dispatch"]
        ELSE Emit([f EXCEPT !.pc = "failed"], ErrorEvent("json"))

\* line 183: json.loads of the arguments, then the tool_call event; a text that
\* does not parse raises into the outer except (lines 211-214)
next_tool_call(f) ==
    LET c == f.tool_calls_data[f.tc]
    IN  IF json_parses(c.arguments)
        THEN Emit([f EXCEPT !.pc = "dispatch"], ToolCallEvent(c))
        ELSE Emit([f EXCEPT !.pc = "failed"], ErrorEvent("json"))

end_of_round_off_by_one(f) ==
    IF f.iteration + 1 <= max_iterations
    THEN [f EXCEPT !.iteration = f.iteration + 1, !.pc = "create", !.calls = @ + 1]
    ELSE Emit([f EXCEPT !.iteration = f.iteration + 1, !.pc = "done"], DoneEvent)

end_of_round_silent(f) ==
    IF f.iteration + 1 < max_iterations
    THEN [f EXCEPT !.iteration = f.iteration + 1, !.pc = "create", !.calls = @ + 1]
    ELSE [f EXCEPT !.iteration = f.iteration + 1, !.pc = "done"]

\* for iteration in range(max_iterations): the next model call, or the loop is
\* exhausted and line 217 yields done
end_of_round(f) ==
    IF f.iteration + 1 < max_iterations
    THEN [f EXCEPT !.iteration = f.iteration + 1, !.pc = "create", !.calls = @ + 1]
    ELSE Emit([f EXCEPT !.iteration = f.iteration + 1, !.pc = "done"], DoneEvent)

\* for tc in tool_calls_data: the next call, or the round is over
advance(f) ==
    IF f.tc <= Len(f.tool_calls_data) THEN next_tool_call(f) ELSE end_of_round(f)

\* lines 203-207: the tool message of the current call, then on with the loop
record_result(f, result) ==
    advance([f EXCEPT !.messages = Append(@, ToolMessage(f.tool_calls_data[f.tc].id, result)),
                      !.tc = @ + 1])

dispatch_unknown_unrecorded(f) ==
    LET c == f.tool_calls_data[f.tc]
    IN  IF c.name \in TOOL_HANDLERS
        THEN IF json_parses(c.arguments) /\ binds(c.name, json_loads(c.arguments))
             THEN [f EXCEPT !.pc = "handler",
                            !.invoked = Append(@, [round |-> f.iteration, id |-> c.id,
                                                   name |-> c.name, user_id |-> f.user_id,
                                                   args |-> json_loads(c.arguments),
                                                   outcome |-> "running"])]
             ELSE record_result(f, ToolError)
        ELSE advance([f EXCEPT !.tc = @ + 1])

\* lines 186-199 up to the await of the handler
dispatch(f) ==
    LET c == f.tool_calls_data[f.tc]
    IN  IF c.name \in TOOL_HANDLERS
        THEN IF json_parses(c.arguments) /\ binds(c.name, json_loads(c.arguments))
             THEN [f EXCEPT !.pc = "handler",
                            !.invoked = Append(@, [round |-> f.iteration, id |-> c.id,
                                                   name |-> c.name, user_id |-> f.user_id,
                                                   args |-> json_loads(c.arguments),
                                                   outcome |-> "running"])]
             ELSE record_result(f, ToolError)
        ELSE record_result(f, UnknownTool)

\* line 192: the awaited handler returns its text
handler_returns(f) ==
    record_result([f EXCEPT !.invoked[Len(f.invoked)].outcome = "returned"], HandlerText)

\* line 192 raises: lines 197-199
handler_raises(f) ==
    record_result([f EXCEPT !.invoked[Len(f.invoked)].outcome = "raised"], ToolError)

relay_content_cumulative(f, delta) ==
    Emit([f EXCEPT !.full_content = @ \o delta.content, !.delta = delta,
                   !.pc = "relayed"],
         ContentEvent(f.full_content \o delta.content))

relay_content_unrelayed(f, delta) ==
    [f EXCEPT !.full_content = @ \o delta.content, !.delta = delta, !.pc = "relayed"]

\* lines 130-132: a truthy delta.content is accumulated and relayed
relay_content(f, delta) ==
    Emit([f EXCEPT !.full_content = @ \o delta.content, !.delta = delta,
                   !.pc = "relayed"],
         ContentEvent(delta.content))

\* lines 135-146: the tool calls of the delta, then back to the async for
collect_tool_calls(f, delta) ==
    [f EXCEPT !.current_tools = accumulate(@, delta.tool_calls), !.delta = NoDelta,
              !.pc = "stream"]

\* lines 149-178 when the stream has ended with tool calls
start_dispatch(f) ==
    LET f1 == [f EXCEPT !.tool_calls_data = values(f.current_tools)]
    IN  advance([f1 EXCEPT !.messages = Append(@, AssistantToolMessage(f1)), !.tc = 1])

fail_continue(f, e) ==
    IF f.iteration + 1 < max_iterations
    THEN Emit([f EXCEPT !.iteration = f.iteration + 1, !.pc = "create", !.calls = @ + 1],
              ErrorEvent(e))
    ELSE Emit(Emit([f EXCEPT !.iteration = f.iteration + 1, !.pc = "done"], ErrorEvent(e)),
              DoneEvent)

\* lines 211-214: the outer except
fail(f, e) == Emit([f EXCEPT !.pc = "failed"], ErrorEvent(e))

\* ------------------------------------------------------------- the gateway
CallId(k) == <<"call", k>>
UserMessages == {<<"hi">>}
Fragments == {<<"a">>, <<"b">>}
BasicCalls == {<<"list_tasks", <<"{", "}">> >>, <<"list_tasks", <<"{", "u", "}">> >>,
               <<"list_tasks", <<>> >>, <<"bogus", <<"{", "}">> >>}

\* what the completion service may send next: a content fragment, or a whole new
\* tool call under the next free index
BasicDeltas(f) ==
    {[content |-> c, tool_calls |-> <<>>] : c \in Fragments}
    \cup
    {[content |-> None,
      tool_calls |-> <<[index |-> Len(f.current_tools),
                        id |-> CallId(Len(f.current_tools)),
                        name |-> c[1], arguments |-> c[2]]>>] : c \in BasicCalls}

\* the plain path costs nothing: the first tool call of a round, well formed;
\* every other delta counts against MaxVariation
PlainCall == <<"list_tasks", <<"{", "}">> >>
Cost(f, delta) ==
    IF /\ delta.content = None
       /\ f.current_tools = <<>>
       /\ <<delta.tool_calls[1].name, delta.tool_calls[1].arguments>> = PlainCall
    THEN 0 ELSE 1

\* the session ids a caller may present: none or one handed out earlier; and one
\* that was never handed out
UnknownId == MaxSessions + 2
PresentedIds == {NoId} \cup 1..(nextId - 1)

EmptyHeap == [sid \in {} |-> ChatSession("", sid, 0)]

Init ==
    /\ _sessions = {}
    /\ heap = EmptyHeap
    /\ nextId = 1
    /\ now = 0
    /\ api_key \in BOOLEAN
    /\ _client = FALSE
    /\ turn = [p \in Procs |-> IdleTurn]
    /\ last = [op |-> "init"]
    /\ ticks = 0 /\ turns = 0 /\ variation = 0 /\ ops = 0

\* ------------------------------------------------------------ environment
\* time passes: an hour, a whole expiry window, or more than that
Pauses == {1, timeout_hours, timeout_hours + 1}

Tick ==
    /\ ticks < MaxTicks
    /\ \E d \in Pauses : now' = now + d
    /\ ticks' = ticks + 1
    /\ ops' = ops + 1
    /\ last' = [op |-> "tick"]
    /\ UNCHANGED <<_sessions, heap, nextId, api_key, _client, turn, turns, variation>>

\* time passes between two requests
Pause ==
    /\ variation < MaxVariation
    /\ \A p \in Procs : turn[p].pc \in {"idle", "done"}
    /\ \E d \in Pauses : now' = now + d
    /\ variation' = variation + 1
    /\ last' = [op |-> "tick"]
    /\ UNCHANGED <<_sessions, heap, nextId, api_key, _client, turn, turns, ticks, ops>>

StepVars == <<now, api_key, ticks, turns, ops>>

\* chat_endpoint: StreamingResponse(process_chat_stream(message, user_id, session_id))
Request(p, u, m, sid) ==
    /\ turn[p].pc \in {"idle", "done"}
    /\ variation + (IF turns = 0 THEN 0 ELSE 1) <= MaxVariation
    /\ variation' = variation + (IF turns = 0 THEN 0 ELSE 1)
    /\ turns' = turns + 1
    /\ turn' = [turn EXCEPT ![p] = [IdleTurn EXCEPT !.pc = "begin", !.user_id = u,
                                                   !.message = m, !.session_id = sid]]
    /\ heap' = Live(heap, _sessions, turn')
    /\ last' = [op |-> "request"]
    /\ UNCHANGED <<_sessions, nextId, now, api_key, _client, ticks, ops>>

NoClient_after_session(p) ==
    /\ turn[p].pc = "begin"
    /\ ~_client /\ ~api_key
    /\ nextId <= MaxSessions
    /\ LET f == turn[p]
           r == get_or_create_session(_sessions, heap, f.user_id, f.session_id, nextId, now)
       IN  /\ _sessions' = r.store
           /\ nextId' = IF r.session = nextId THEN nextId + 1 ELSE nextId
           /\ turn' = [turn EXCEPT ![p] = Emit([f EXCEPT !.pc = "failed"], ErrorEvent("no key"))]
           /\ heap' = Live(r.objs, r.store, turn')
    /\ last' = [op |-> "chat"]
    /\ UNCHANGED <<_client, variation>>
    /\ UNCHANGED StepVars

\* lines 89-94: no client and no key: the error event
NoClient(p) ==
    /\ turn[p].pc = "begin"
    /\ ~_client /\ ~api_key
    /\ turn' = [turn EXCEPT ![p] = Emit([@ EXCEPT !.pc = "failed"], ErrorEvent("no key"))]
    /\ last' = [op |-> "chat"]
    /\ UNCHANGED <<_sessions, heap, nextId, _client, variation>>
    /\ UNCHANGED StepVars

\* lines 90-101: the client, the session, the user message, the first event
Begin(p) ==
    /\ turn[p].pc = "begin"
    /\ _client \/ api_key
    /\ nextId <= MaxSessions
    /\ _client' = TRUE
    /\ LET f == turn[p]
           r == get_or_create_session(_sessions, heap, f.user_id, f.session_id, nextId, now)
           s == add_message(r.objs[r.session], "user", f.message, <<>>, now)
       IN  /\ _sessions' = r.store
           /\ nextId' = IF r.session = nextId THEN nextId + 1 ELSE nextId
           /\ turn' = [turn EXCEPT ![p] = Emit([f EXCEPT !.pc = "build", !.session = r.session],
                                               FirstEvent(r.session))]
           /\ heap' = Live([r.objs EXCEPT ![r.session] = s], r.store, turn')
    /\ last' = [op |-> "chat"]
    /\ UNCHANGED variation
    /\ UNCHANGED StepVars

Build_fresh(p) ==
    /\ turn[p].pc = "build"
    /\ turn' = [turn EXCEPT ![p] =
                  [@ EXCEPT !.messages = <<Message("system", SYSTEM_PROMPT, <<>>),
                                           Message("user", turn[p].message, <<>>)>>,
                            !.iteration = 0, !.pc = "create", !.calls = @ + 1]]
    /\ last' = [op |-> "chat"]
    /\ UNCHANGED <<_sessions, heap, nextId, _client, variation>>
    /\ UNCHANGED StepVars

\* lines 104-118: the message list, then the first model call
Build(p) ==
    /\ turn[p].pc = "build"
    /\ turn' = [turn EXCEPT ![p] =
                  [@ EXCEPT !.messages = <<Message("system", SYSTEM_PROMPT, <<>>)>>
                                         \o get_messages_for_api(heap[turn[p].session]),
                            !.iteration = 0, !.pc = "create", !.calls = @ + 1]]
    /\ last' = [op |-> "chat"]
    /\ UNCHANGED <<_sessions, heap, nextId, _client, variation>>
    /\ UNCHANGED StepVars

\* line 112 returns the stream; lines 121-123
CreateReturns(p) ==
    /\ turn[p].pc = "create"
    /\ turn' = [turn EXCEPT ![p] = [@ EXCEPT !.full_content = <<>>, !.tool_calls_data = <<>>,
                                             !.current_tools = <<>>, !.pc = "stream"]]
    /\ last' = [op |-> "chat"]
    /\ UNCHANGED <<_sessions, heap, nextId, _client, variation>>
    /\ UNCHANGED StepVars

\* line 112 or line 126 raises
GatewayRaises(p) ==
    /\ turn[p].pc \in {"create", "stream"}
    /\ turn' = [turn EXCEPT ![p] = fail(@, "gateway")]
    /\ last' = [op |-> "chat"]
    /\ UNCHANGED <<_sessions, heap, nextId, _client, variation>>
    /\ UNCHANGED StepVars

StreamChunk_eager(p, delta) ==
    /\ turn[p].pc = "stream"
    /\ variation + Cost(turn[p], delta) <= MaxVariation
    /\ variation' = variation + Cost(turn[p], delta)
    /\ turn' = [turn EXCEPT ![p] = IF delta.content # None /\ delta.content # <<>>
                                   THEN relay_content(@, delta)
                                   ELSE start_dispatch(collect_tool_calls(@, delta))]
    /\ last' = [op |-> "chat"]
    /\ UNCHANGED <<_sessions, heap, nextId, _client>>
    /\ UNCHANGED StepVars

\* line 126 delivers a chunk
StreamChunk(p, delta) ==
    /\ turn[p].pc = "stream"
    /\ variation + Cost(turn[p], delta) <= MaxVariation
    /\ variation' = variation + Cost(turn[p], delta)
    /\ turn' = [turn EXCEPT ![p] = IF delta.content # None /\ delta.content # <<>>
                                   THEN relay_content(@, delta)
                                   ELSE collect_tool_calls(@, delta)]
    /\ last' = [op |-> "chat"]
    /\ UNCHANGED <<_sessions, heap, nextId, _client>>
    /\ UNCHANGED StepVars

\* the generator is resumed after the content event
AfterContent(p) ==
    /\ turn[p].pc = "relayed"
    /\ turn' = [turn EXCEPT ![p] = collect_tool_calls(@, @.delta)]
    /\ last' = [op |-> "chat"]
    /\ UNCHANGED <<_sessions, heap, nextId, _client, variation>>
    /\ UNCHANGED StepVars

\* line 126: the stream is exhausted, without tool calls: lines 161-164 and 217
StreamEndsFinal(p) ==
    /\ turn[p].pc = "stream"
    /\ values(turn[p].current_tools) = <<>>
    /\ heap' = [heap EXCEPT ![turn[p].session] =
                   add_message(@, "assistant", turn[p].full_content, <<>>, now)]
    /\ turn' = [turn EXCEPT ![p] = Emit([@ EXCEPT !.pc = "done"], DoneEvent)]
    /\ last' = [op |-> "chat"]
    /\ UNCHANGED <<_sessions, nextId, _client, variation>>
    /\ UNCHANGED StepVars

\* line 126: the stream is exhausted, with tool calls: lines 149-183
StreamEndsTools(p) ==
    /\ turn[p].pc = "stream"
    /\ values(turn[p].current_tools) # <<>>
    /\ turn' = [turn EXCEPT ![p] = start_dispatch(@)]
    /\ last' = [op |-> "chat"]
    /\ UNCHANGED <<_sessions, heap, nextId, _client, variation>>
    /\ UNCHANGED StepVars

\* the generator is resumed after the tool_call event: lines 186-199
Dispatch(p) ==
    /\ turn[p].pc = "dispatch"
    /\ turn' = [turn EXCEPT ![p] = dispatch(@)]
    /\ last' = [op |-> "chat"]
    /\ UNCHANGED <<_sessions, heap, nextId, _client, variation>>
    /\ UNCHANGED StepVars

\* line 192: the handler returns its text
HandlerReturns(p) ==
    /\ turn[p].pc = "handler"
    /\ turn' = [turn EXCEPT ![p] = handler_returns(@)]
    /\ last' = [op |-> "chat"]
    /\ UNCHANGED <<_sessions, heap, nextId, _client, variation>>
    /\ UNCHANGED StepVars

\* line 192: the handler raises, lines 197-199
HandlerRaises(p) ==
    /\ turn[p].pc = "handler"
    /\ variation < MaxVariation
    /\ variation' = variation + 1
    /\ turn' = [turn EXCEPT ![p] = handler_raises(@)]
    /\ last' = [op |-> "chat"]
    /\ UNCHANGED <<_sessions, heap, nextId, _client>>
    /\ UNCHANGED StepVars

\* the generator is resumed after an error event: break, then line 217 (or line 93)
Failed(p) ==
    /\ turn[p].pc = "failed"
    /\ turn' = [turn EXCEPT ![p] = Emit([@ EXCEPT !.pc = "done"], DoneEvent)]
    /\ last' = [op |-> "chat"]
    /\ UNCHANGED <<_sessions, heap, nextId, _client, variation>>
    /\ UNCHANGED StepVars

Chat(p) ==
    \/ \E u \in Users, m \in UserMessages, sid \in PresentedIds : Request(p, u, m, sid)
    \/ NoClient(p)
    \/ Begin(p)
    \/ Build(p)
    \/ CreateReturns(p)
    \/ GatewayRaises(p)
    \/ \E delta \in BasicDeltas(turn[p]) : StreamChunk(p, delta)
    \/ AfterContent(p)
    \/ StreamEndsFinal(p)
    \/ StreamEndsTools(p)
    \/ Dispatch(p)
    \/ HandlerReturns(p)
    \/ HandlerRaises(p)
    \/ Failed(p)

\* one request at a time
Next == Chat("p1") \/ Pause

Spec == Init /\ [][Next]_vars

\* ------------------------------------------------- the store on its own
StoreUnchanged == <<api_key, _client, turn, turns, variation>>

\* get_or_create_session called directly
StoreGetOrCreate(u, sid) ==
    /\ nextId <= MaxSessions
    /\ LET r == get_or_create_session(_sessions, heap, u, sid, nextId, now)
       IN  /\ _sessions' = r.store
           /\ heap' = Live(r.objs, r.store, turn)
           /\ nextId' = IF r.session = nextId THEN nextId + 1 ELSE nextId
           /\ last' = [op |-> "get_or_create_session", user_id |-> u,
                       session_id |-> sid, ret |-> r.session]
    /\ ops' = ops + 1
    /\ UNCHANGED <<now, ticks>>
    /\ UNCHANGED StoreUnchanged

\* add_message on a session of the store
StoreAddMessage(sid, role, content) ==
    /\ sid \in _sessions
    /\ heap' = [heap EXCEPT ![sid] = add_message(@, role, content, <<>>, now)]
    /\ ops' = ops + 1
    /\ last' = [op |-> "add_message", session_id |-> sid,
                msg |-> Message(role, content, <<>>)]
    /\ UNCHANGED <<_sessions, nextId, now, ticks>>
    /\ UNCHANGED StoreUnchanged

\* get_session called directly
StoreGetSession(sid) ==
    /\ last' = [op |-> "get_session", session_id |-> sid,
                ret |-> get_session(_sessions, sid)]
    /\ UNCHANGED <<_sessions, heap, nextId, now, ticks, ops>>
    /\ UNCHANGED StoreUnchanged

\* delete_session called directly
StoreDelete(sid) ==
    /\ LET r == delete_session(_sessions, sid)
       IN  /\ _sessions' = r.store
           /\ heap' = Live(heap, r.store, turn)
           /\ last' = [op |-> "delete_session", session_id |-> sid, ret |-> r.ret]
    /\ ops' = ops + 1
    /\ UNCHANGED <<nextId, now, ticks>>
    /\ UNCHANGED StoreUnchanged

\* the n-th message appended: user and assistant take turns, every text differs
NthRole(n) == IF n % 2 = 0 THEN "user" ELSE "assistant"
NthText(n) == <<ToString(n)>>

StoreIds == PresentedIds \cup {UnknownId}

NextStore ==
    \/ \E u \in Users, sid \in StoreIds : ops < MaxStoreOps /\ StoreGetOrCreate(u, sid)
    \/ \E sid \in _sessions :
          ops < MaxStoreOps /\ StoreAddMessage(sid, NthRole(ops), NthText(ops))
    \/ \E sid \in StoreIds \ {NoId} : StoreGetSession(sid)
    \/ \E sid \in StoreIds \ {NoId} : ops < MaxStoreOps /\ StoreDelete(sid)
    \/ ops < MaxStoreOps /\ Tick

SpecStore == Init /\ [][NextStore]_vars

\* ------------------------------------- one session and a long conversation
NextHistory ==
    \/ \E u \in Users : _sessions = {} /\ nextId = 1 /\ StoreGetOrCreate(u, NoId)
    \/ \E sid \in _sessions :
          ops < MaxAppends /\ StoreAddMessage(sid, NthRole(ops), NthText(ops))
    \/ ops < MaxAppends /\ Tick

SpecHistory == Init /\ [][NextHistory]_vars

\* ------------------------------------------- requests without credentials
\* OPENAI_API_KEY is not set; the store is filled by its own functions
InitNoKey == Init /\ ~api_key

NextNoKey ==
    \/ \E u \in Users, m \in UserMessages, sid \in StoreIds : Request("p1", u, m, sid)
    \/ NoClient("p1")
    \/ Failed("p1")
    \/ \E u \in Users : ops < MaxSetup /\ StoreGetOrCreate(u, NoId)
    \/ \E sid \in _sessions :
          ops < MaxSetup /\ StoreAddMessage(sid, NthRole(ops), NthText(ops))
    \/ ops < MaxSetup /\ Tick

SpecNoKey == InitNoKey /\ [][NextNoKey]_vars

\* ------------------------------------------------- two requests in flight
\* each caller sends its own text; the event loop resumes either generator
\* wherever it is suspended
TextOf(p) == <<p>>

NextConcurrent ==
    /\ \E p \in Procs :
          \/ \E u \in Users, sid \in PresentedIds : Request(p, u, TextOf(p), sid)
          \/ NoClient(p)
          \/ Begin(p)
          \/ Build(p)
          \/ CreateReturns(p)
          \/ GatewayRaises(p)
          \/ \E delta \in BasicDeltas(turn[p]) : StreamChunk(p, delta)
          \/ AfterContent(p)
          \/ StreamEndsFinal(p)
          \/ StreamEndsTools(p)
          \/ Dispatch(p)
          \/ HandlerReturns(p)
          \/ HandlerRaises(p)
          \/ Failed(p)
    /\ variation' <= MaxOverlap

SpecConcurrent == Init /\ [][NextConcurrent]_vars

\* ------------------------------------------------ what the endpoint accepts
\* routes/chat.py declares its own ChatRequest, message: str, and validates
\* nothing more: every text reaches process_chat_stream
WireMessages == {<<>>, <<"hi">>, [i \in 1..(max_length + 1) |-> "x"]}

NextEndpoint ==
    \/ \E u \in Users, m \in WireMessages, sid \in PresentedIds : Request("p1", u, m, sid)
    \/ NoClient("p1")
    \/ Begin("p1")
    \/ Build("p1")
    \/ CreateReturns("p1")
    \/ GatewayRaises("p1")
    \/ \E delta \in BasicDeltas(turn["p1"]) : StreamChunk("p1", delta)
    \/ AfterContent("p1")
    \/ StreamEndsFinal("p1")
    \/ StreamEndsTools("p1")
    \/ Dispatch("p1")
    \/ HandlerReturns("p1")
    \/ HandlerRaises("p1")
    \/ Failed("p1")

SpecEndpoint == Init /\ [][NextEndpoint]_vars

\* ------------------------------------------------ tool calls in fragments
\* the completion service sends a tool call in pieces: a piece names a call
\* index (or none), may carry an id and a name, and carries a part of the
\* arguments text; the pieces of different calls arrive in any order
FragmentCalls ==
    {[index |-> i, id |-> c[1], name |-> c[2], arguments |-> a] :
        i \in {0, 1},
        c \in {<<"", "">>, <<CallId(0), "list_tasks">>, <<CallId(1), "bogus">>},
        a \in {<<"{">>, <<"}">>}}
    \cup {[index |-> NoIndex, id |-> CallId(0), name |-> "list_tasks", arguments |-> <<"{">>]}

FragmentDeltas == {[content |-> None, tool_calls |-> <<tc>>] : tc \in FragmentCalls}

\* line 126 delivers a chunk with a piece of a tool call: lines 135-146
StreamFragment(p, delta) ==
    /\ turn[p].pc = "stream"
    /\ ops < MaxFragments
    /\ ops' = ops + 1
    /\ turn' = [turn EXCEPT ![p] = collect_tool_calls(@, delta)]
    /\ last' = [op |-> "fragment",
                fed |-> (IF last.op = "fragment" THEN last.fed ELSE <<>>) \o delta.tool_calls]
    /\ UNCHANGED <<_sessions, heap, nextId, now, api_key, _client, ticks, turns, variation>>

\* one turn, its tool calls sent in pieces
NextFragments ==
    /\ \/ \E u \in Users, m \in UserMessages, sid \in PresentedIds : Request("p1", u, m, sid)
       \/ NoClient("p1")
       \/ Begin("p1")
       \/ Build("p1")
       \/ CreateReturns("p1")
       \/ GatewayRaises("p1")
       \/ \E delta \in FragmentDeltas : StreamFragment("p1", delta)
       \/ StreamEndsFinal("p1")
       \/ StreamEndsTools("p1")
       \/ Dispatch("p1")
       \/ HandlerReturns("p1")
       \/ Failed("p1")
    /\ turns' = 1

SpecFragments == Init /\ [][NextFragments]_vars

\* ---------------------------------------------------- the transport drops
\* the client is gone and the response stops iterating the generator, which
\* stays suspended at the yield it had reached (line 101, 132, 183, 213 or 92)
\* and is never resumed
Drop(p) ==
    /\ turn[p].pc \in {"build", "relayed", "dispatch", "failed"}
    /\ turn' = [turn EXCEPT ![p].pc = "closed"]
    /\ last' = [op |-> "drop"]
    /\ UNCHANGED <<_sessions, heap, nextId, _client, variation>>
    /\ UNCHANGED StepVars

NextDisconnect == Chat("p1") \/ Drop("p1")

SpecDisconnect == Init /\ [][NextDisconnect]_vars

\* ------------------------------------- two requests on sessions of their own
\* a request is held up for an hour, and later for a whole expiry window
Stall ==
    /\ Tick
    /\ \/ now = 0 /\ now' = 1
       \/ now = 1 /\ now' = 1 + timeout_hours

\* one round with at most one content fragment and then at most one tool call;
\* the round after it ends without either
ShortDeltas(f) ==
    {d \in BasicDeltas(f) :
        /\ f.iteration = 0
        /\ \/ d.content = <<"a">> /\ f.full_content = <<>> /\ f.current_tools = <<>>
           \/ d.content = None /\ Cost(f, d) = 0}

InitIndependent == Init /\ api_key

\* a session left behind by an earlier request, then one request of each caller,
\* resumed by the event loop in any order
NextIndependent ==
    \/ \E u \in Users : _sessions = {} /\ nextId = 1 /\ StoreGetOrCreate(u, NoId)
    \/ \E p \in Procs :
          \/ \E u \in Users, sid \in PresentedIds :
                turn[p].pc = "idle" /\ Request(p, u, TextOf(p), sid)
          \/ Begin(p)
          \/ Build(p)
          \/ CreateReturns(p)
          \/ \E delta \in ShortDeltas(turn[p]) : StreamChunk(p, delta)
          \/ AfterContent(p)
          \/ StreamEndsFinal(p)
          \/ StreamEndsTools(p)
          \/ Dispatch(p)
          \/ HandlerReturns(p)
    \/ Stall

SpecIndependent == InitIndependent /\ [][NextIndependent]_vars

\* ================================================================ claims
EventsOfType(f, type) == {i \in 1..Len(f.events) : f.events[i].type = type}
GatewayErrors(f) ==
    {i \in EventsOfType(f, "error") : f.events[i].error = "gateway"}
LastEventIs(f, type) == f.events # <<>> /\ f.events[Len(f.events)].type = type
SessionMessages(f) == heap[f.session].messages

\* C1: a stream consumed to its end holds exactly one done event, and it is the
\* last event; before the end the stream holds none.
C1_OneDoneLast ==
    \A p \in Procs :
        LET f == turn[p]
        IN  /\ f.pc = "done" => EventsOfType(f, "done") = {Len(f.events)}
            /\ f.pc # "done" => EventsOfType(f, "done") = {}

\* the four ends of a turn: the final answer, a gateway failure, no credentials,
\* the round limit; here the round limit
C1_Witness ==
    \E p \in Procs :
        /\ turn[p].pc = "done"
        /\ turn[p].iteration = max_iterations
        /\ LastEventIs(turn[p], "done")
        /\ Cardinality(EventsOfType(turn[p], "tool_call")) = max_iterations

\* C2: get_or_create_session(u, sid), sid a live session of another user: the
\* session returned is a new object of u with another id and no messages, and
\* the foreign session stays in the store as it was.
C2_Isolation ==
    [][ (/\ last'.op = "get_or_create_session"
         /\ last'.session_id \in _sessions
         /\ heap[last'.session_id].user_id # last'.user_id
         /\ ~is_expired(heap[last'.session_id], now))
        => (/\ last'.ret # last'.session_id
            /\ last'.ret \notin DOMAIN heap
            /\ last'.ret \in _sessions'
            /\ heap'[last'.ret].session_id = last'.ret
            /\ heap'[last'.ret].user_id = last'.user_id
            /\ heap'[last'.ret].messages = <<>>
            /\ last'.session_id \in _sessions'
            /\ heap'[last'.session_id] = heap[last'.session_id]) ]_vars

C2_Witness ==
    /\ last.op = "get_or_create_session"
    /\ last.session_id \in _sessions
    /\ heap[last.session_id].user_id # last.user_id
    /\ heap[last.session_id].messages # <<>>
    /\ last.ret # last.session_id
    /\ heap[last.ret].user_id = last.user_id

\* C3: the first stored entry of every session that has been through a turn has
\* role system and holds the system prompt.
C3_SystemFirst ==
    \A sid \in DOMAIN heap :
        heap[sid].messages # <<>> =>
            /\ heap[sid].messages[1].role = "system"
            /\ heap[sid].messages[1].content = SYSTEM_PROMPT

\* C4: add_message leaves at most 21 entries; an append that would exceed 21
\* leaves the previous entry 0 followed by the 20 most recent entries in their
\* order; entry 0 never changes once set.
C4_BoundedHistory ==
    [][ last'.op = "add_message" =>
          LET before == heap[last'.session_id].messages
              after == heap'[last'.session_id].messages
              all == Append(before, last'.msg)
          IN  /\ Len(after) <= 21
              /\ Len(all) <= 21 => after = all
              /\ Len(all) > 21 =>
                    /\ Len(after) = 21
                    /\ after[1] = before[1]
                    /\ \A i \in 1..20 : after[1 + i] = all[Len(all) - 20 + i]
              /\ before # <<>> => after[1] = before[1] ]_vars

C4_Witness ==
    \E sid \in _sessions :
        LET m == heap[sid].messages
        IN  /\ last.op = "add_message" /\ last.session_id = sid
            /\ Len(m) = 21
            /\ m[1].content = NthText(1)
            /\ m[2].content = NthText(3)
            /\ m[21].content = NthText(22)
            /\ m[21] = last.msg

\* C5: a turn calls the model at most 5 times; when the model asks for a tool in
\* every round the loop ends after the 5th round and the stream ends with done.
C5_RoundLimit ==
    \A p \in Procs :
        LET f == turn[p]
        IN  /\ f.calls <= 5
            /\ f.iteration <= 5
            /\ f.iteration = 5 => f.pc = "done" /\ LastEventIs(f, "done")

C5_Witness ==
    \E p \in Procs :
        /\ turn[p].calls = 5
        /\ turn[p].iteration = 5
        /\ turn[p].tool_calls_data # <<>>
        /\ Len(turn[p].invoked) = 5
        /\ turn[p].pc = "done"

\* the arguments would bind if their user_id member were dropped
binds_ignoring_user_id(name, args) ==
    /\ (args \ {"user_id"}) \subseteq Params(name)
    /\ Required(name) \subseteq args

\* C6: a handler runs with the caller's user_id, and a user_id among the model's
\* arguments is overwritten or ignored: the handler still runs, with the caller's id.
C6_CallerIdInjected ==
    [][ \A p \in Procs :
          LET f == turn[p]
              c == f.tool_calls_data[f.tc]
          IN  (/\ f.pc = "dispatch"
               /\ turn'[p] # f
               /\ c.name \in TOOL_HANDLERS
               /\ json_parses(c.arguments)
               /\ binds_ignoring_user_id(c.name, json_loads(c.arguments)))
              => /\ Len(turn'[p].invoked) = Len(f.invoked) + 1
                 /\ \A j \in 1..Len(turn'[p].invoked) :
                        turn'[p].invoked[j].user_id = f.user_id ]_vars

\* the handler calls of a round that raised
RaisedIn(f, round) ==
    {j \in 1..Len(f.invoked) : f.invoked[j].round = round /\ f.invoked[j].outcome = "raised"}

\* C7: a handler that raises in a round before the last one does not abort the
\* stream: the round goes on to its remaining calls without an error event, the
\* tool message of the call carries its id and an error text, and the model is
\* called again.
C7_HandlerErrorRecovered ==
    \A p \in Procs :
        LET f == turn[p]
        IN  /\ (f.iteration < max_iterations - 1 /\ RaisedIn(f, f.iteration) # {}) =>
                  /\ f.pc # "failed"
                  /\ EventsOfType(f, "error") = {}
                  /\ \A j \in RaisedIn(f, f.iteration) :
                        \E k \in 1..Len(f.messages) :
                            f.messages[k] = ToolMessage(f.invoked[j].id, ToolError)
            /\ \A r \in 0..(max_iterations - 2) :
                  (r < f.iteration /\ RaisedIn(f, r) # {}) => f.calls >= r + 2

\* C8: the model call or its stream raises: one error event, done right after
\* it, no model call and no tool dispatch after it, and no assistant message of
\* the turn in the session.
C8_GatewayFailure ==
    [][ \A p \in Procs :
          LET f == turn'[p]
          IN  GatewayErrors(f) # {} =>
                /\ Cardinality(EventsOfType(f, "error")) = 1
                /\ f.pc \in {"failed", "done"}
                /\ f.pc = "failed" => GatewayErrors(f) = {Len(f.events)}
                /\ f.pc = "done" => /\ GatewayErrors(f) = {Len(f.events) - 1}
                                    /\ LastEventIs(f, "done")
                /\ GatewayErrors(turn[p]) # {} =>
                      /\ f.calls = turn[p].calls
                      /\ f.invoked = turn[p].invoked
                      /\ f.messages = turn[p].messages
                /\ heap'[f.session].messages # <<>>
                /\ heap'[f.session].messages[Len(heap'[f.session].messages)]
                      = Message("user", f.message, <<>>) ]_vars

C8_Witness ==
    \E p \in Procs :
        LET f == turn[p]
        IN  /\ f.pc = "done"
            /\ GatewayErrors(f) # {}
            /\ f.iteration >= 1
            /\ f.full_content # <<>>
            /\ \E i \in EventsOfType(f, "content") : f.events[i].content = f.full_content

\* C9: between a round that dispatched tool calls and the next model call, the
\* session's stored messages end with the assistant message carrying the round's
\* tool-call list and one tool message per call, in call order.
C9_RoundStoredInSession ==
    \A p \in Procs :
        LET f == turn[p]
            n == Len(f.tool_calls_data)
            m == SessionMessages(f)
        IN  (f.pc = "create" /\ f.iteration >= 1) =>
               /\ Len(m) >= n + 1
               /\ m[Len(m) - n].role = "assistant"
               /\ m[Len(m) - n].tool_calls = AssistantToolMessage(f).tool_calls
               /\ \A i \in 1..n :
                     /\ m[Len(m) - n + i].role = "tool"
                     /\ m[Len(m) - n + i].tool_call_id = f.tool_calls_data[i].id

\* C10: a turn that ends without an error event, the round limit included, has
\* the last round's content in the session as the final assistant message when
\* done is emitted.
C10_FinalContentStored ==
    \A p \in Procs :
        LET f == turn[p]
        IN  (f.pc = "done" /\ EventsOfType(f, "error") = {}) =>
               SessionMessages(f)[Len(SessionMessages(f))]
                  = Message("assistant", f.full_content, <<>>)

RECURSIVE Relayed(_)
\* the text the content events of a stream carry, in order
Relayed(events) ==
    IF events = <<>> THEN <<>>
    ELSE (IF Head(events).type = "content" THEN Head(events).content ELSE <<>>)
         \o Relayed(Tail(events))

\* C11: the stream of the first round ends without a tool call: the model was
\* called once, the stream holds no tool_call and no error event, its content
\* events carry the fragments of the round, the accumulated content is appended
\* to the session as an assistant message, and the stream ends with its only done.
C11_PlainAnswer ==
    [][ \A p \in Procs :
          LET f == turn[p]
              g == turn'[p]
              before == heap[f.session].messages
              after == heap'[f.session].messages
          IN  (/\ f.pc = "stream" /\ f.iteration = 0 /\ f.current_tools = <<>>
               /\ g.pc \notin {"stream", "relayed", "failed"})
              => /\ g.pc = "done"
                 /\ g.calls = 1
                 /\ EventsOfType(g, "tool_call") = {}
                 /\ EventsOfType(g, "error") = {}
                 /\ Relayed(g.events) = g.full_content
                 /\ after = Append(before, Message("assistant", g.full_content, <<>>))
                 /\ EventsOfType(g, "done") = {Len(g.events)} ]_vars

C11_Witness ==
    \E p \in Procs :
        LET f == turn[p]
        IN  /\ f.pc = "done" /\ f.iteration = 0 /\ f.calls = 1
            /\ f.current_tools = <<>>
            /\ f.full_content = <<"a", "a">>
            /\ Cardinality(EventsOfType(f, "content")) = 3
            /\ SessionMessages(f) = <<Message("user", f.message, <<>>),
                                      Message("assistant", <<"a", "a">>, <<>>)>>

\* the session a caller may resume: the id is given, stored, not expired, its own
Resumable(u, sid) ==
    /\ sid # NoId
    /\ sid \in _sessions
    /\ ~is_expired(heap[sid], now)
    /\ heap[sid].user_id = u

\* C12: get_or_create_session(u, sid) returns the stored session sid if and only
\* if sid is given, stored, not expired and owned by u; in every other case it
\* returns a new session of u with no messages and an id never handed out
\* before, and that session is in the store.
C12_ResumeOrCreate ==
    [][ last'.op = "get_or_create_session" =>
          LET u == last'.user_id
              sid == last'.session_id
              ret == last'.ret
          IN  /\ ret = sid <=> Resumable(u, sid)
              /\ Resumable(u, sid) =>
                    /\ ret \in _sessions'
                    /\ heap'[ret] = heap[sid]
                    /\ nextId' = nextId
              /\ ~Resumable(u, sid) =>
                    /\ ret \notin 1..(nextId - 1)
                    /\ ret \notin DOMAIN heap
                    /\ ret < nextId'
                    /\ ret \in _sessions'
                    /\ heap'[ret].session_id = ret
                    /\ heap'[ret].user_id = u
                    /\ heap'[ret].messages = <<>> ]_vars

\* a session resumed by its owner after a day, next to a session of someone else
C12_Witness ==
    /\ last.op = "get_or_create_session"
    /\ last.ret = last.session_id
    /\ now = heap[last.ret].last_activity + timeout_hours
    /\ heap[last.ret].messages # <<>>
    /\ \E other \in _sessions : heap[other].user_id # last.user_id

\* C13: an error event comes only from a failing model call or stream, or from
\* missing credentials; nothing that arises while a completed tool call is
\* dispatched produces one or stops the remaining calls and rounds.
C13_ErrorOnlyFromGateway ==
    \A p \in Procs :
        LET f == turn[p]
        IN  /\ \A i \in EventsOfType(f, "error") : f.events[i].error \in {"gateway", "no key"}
            /\ (f.pc = "failed" /\ f.tool_calls_data # <<>>) => f.tc > Len(f.tool_calls_data)

\* the local message list ends with the assistant message of the round and the
\* results of its first k calls, in call-list order
ResultsInOrder(f, k) ==
    LET n == Len(f.messages)
    IN  /\ n >= k + 1
        /\ f.messages[n - k] = AssistantToolMessage(f)
        /\ \A i \in 1..k :
              /\ f.messages[n - k + i].role = "tool"
              /\ f.messages[n - k + i].tool_call_id = f.tool_calls_data[i].id

Running(f) == {j \in 1..Len(f.invoked) : f.invoked[j].outcome = "running"}

\* C14: the tool_call event of a call, with its id, name and parsed arguments,
\* is out before its handler starts; the calls of a round are handled one after
\* another in call-list order, call i+1 only after the result of call i is
\* recorded, so the tool messages are in call-list order.
C14_AnnouncedThenSequential ==
    \A p \in Procs :
        LET f == turn[p]
            c == f.tool_calls_data[f.tc]
        IN  /\ f.pc \in {"dispatch", "handler"} =>
                  /\ f.tc \in 1..Len(f.tool_calls_data)
                  /\ f.events[Len(f.events)]
                        = [type |-> "tool_call",
                           tool_call |-> [id |-> c.id, name |-> c.name,
                                          arguments |-> json_loads(c.arguments)]]
                  /\ ResultsInOrder(f, f.tc - 1)
            /\ f.pc = "handler" =>
                  /\ Running(f) = {Len(f.invoked)}
                  /\ f.invoked[Len(f.invoked)].id = c.id
                  /\ f.invoked[Len(f.invoked)].name = c.name
                  /\ f.invoked[Len(f.invoked)].args = json_loads(c.arguments)
            /\ f.pc # "handler" => Running(f) = {}
            /\ (f.tool_calls_data # <<>> /\ f.tc > Len(f.tool_calls_data)) =>
                  ResultsInOrder(f, Len(f.tool_calls_data))

\* the second handler of a round of three calls is running
C14_Witness ==
    \E p \in Procs :
        LET f == turn[p]
        IN  /\ f.pc = "handler"
            /\ Len(f.tool_calls_data) = 3
            /\ f.tc = 3
            /\ f.tool_calls_data[2].name \notin TOOL_HANDLERS
            /\ Len(f.invoked) = 2
            /\ Cardinality(EventsOfType(f, "tool_call")) = 3

\* C15: a call whose name has no handler runs no handler and does not fail the
\* stream: its tool_call event is out, the unknown-tool text is recorded as its
\* tool message under the call's id, no error event is emitted, and the loop
\* goes on with the next call or the next round.
C15_UnknownToolRecovered ==
    [][ \A p \in Procs :
          LET f == turn[p]
              g == turn'[p]
              c == f.tool_calls_data[f.tc]
          IN  (f.pc = "dispatch" /\ g # f /\ c.name \notin TOOL_HANDLERS) =>
                /\ g.invoked = f.invoked
                /\ \E i \in EventsOfType(f, "tool_call") :
                       /\ i = Len(f.events)
                       /\ f.events[i].tool_call.id = c.id
                       /\ f.events[i].tool_call.name = c.name
                /\ g.messages = Append(f.messages, ToolMessage(c.id, UnknownTool))
                /\ EventsOfType(g, "error") = {}
                /\ g.pc \in {"dispatch", "create", "done"} ]_vars

\* C16: without credentials a chat request yields the pair error, done and
\* nothing else, calls the model never, creates no session, and leaves the store
\* and every session in it as they were, the one named by the request included.
C16_NoCredentials ==
    [][ \A p \in Procs :
          LET f == turn[p]
              g == turn'[p]
          IN  (~api_key /\ ~_client /\ f.pc \in {"begin", "failed"} /\ g # f) =>
                /\ _sessions' = _sessions
                /\ heap' = heap
                /\ nextId' = nextId
                /\ g.calls = 0
                /\ g.session = NoId
                /\ f.pc = "begin" =>
                      /\ g.pc = "failed"
                      /\ g.events = <<[type |-> "error", error |-> "no key"]>>
                /\ f.pc = "failed" =>
                      /\ g.pc = "done"
                      /\ g.events = <<[type |-> "error", error |-> "no key"],
                                      [type |-> "done"]>> ]_vars

\* the request named a stored session that has messages and is past its expiry
C16_Witness ==
    \E p \in Procs :
        LET f == turn[p]
        IN  /\ ~api_key
            /\ f.pc = "done"
            /\ Len(f.events) = 2
            /\ f.session_id \in _sessions
            /\ heap[f.session_id].messages # <<>>
            /\ heap[f.session_id].user_id = f.user_id
            /\ is_expired(heap[f.session_id], now)

\* C17: two turns on one session are mutually exclusive: in the stored history
\* the user message and the assistant message of a turn are never separated by
\* a message of the other turn.
C17_NoInterleaving ==
    \A p \in Procs :
        LET f == turn[p]
            m == SessionMessages(f)
        IN  (f.pc = "done" /\ EventsOfType(f, "error") = {} /\ f.iteration < max_iterations) =>
               \E i \in 1..(Len(m) - 1) :
                   /\ m[i] = Message("user", f.message, <<>>)
                   /\ m[i + 1] = Message("assistant", f.full_content, <<>>)

\* C18: once a turn has its session, new or resumed, the first event of the
\* stream carries that session's id and no later event carries a session id; a
\* later request of the same user with that id, the session being live, resumes
\* that session.
C18_SessionIdFirst ==
    [][ \A p \in Procs :
          LET f == turn[p]
              g == turn'[p]
          IN  /\ g.session # NoId =>
                    /\ g.events # <<>>
                    /\ "session_id" \in DOMAIN g.events[1]
                    /\ g.events[1].session_id = g.session
                    /\ g.events[1].session_id = heap'[g.session].session_id
                    /\ \A i \in 2..Len(g.events) : "session_id" \notin DOMAIN g.events[i]
              /\ (f.pc = "begin" /\ g.pc = "build" /\ Resumable(f.user_id, f.session_id)) =>
                    /\ g.session = f.session_id
                    /\ g.events = <<[type |-> "content", content |-> <<>>,
                                     session_id |-> f.session_id]>>
                    /\ heap'[g.session].messages
                          = Append(heap[f.session_id].messages, Message("user", f.message, <<>>)) ]_vars

\* a session resumed a day later, the turn well past its first event
C18_Witness ==
    \E p \in Procs :
        LET f == turn[p]
        IN  /\ f.session_id # NoId
            /\ f.session = f.session_id
            /\ now = timeout_hours
            /\ Len(SessionMessages(f)) >= 3
            /\ Len(f.events) >= 3

\* C19: the endpoint starts a turn only for a message of 1 to 1000 characters:
\* for any other message no session is created or changed and the model is not
\* called.
C19_MessageLength ==
    \A p \in Procs :
        LET f == turn[p]
        IN  (f.session # NoId \/ f.calls > 0) =>
               Len(f.message) \in min_length..max_length

\* the stored sessions whose last activity is more than 24 hours back
Expired == {sid \in _sessions : now > heap[sid].last_activity + 24}

\* C20: every get_or_create_session call removes from the store exactly the
\* sessions with now > last_activity + 24h and leaves every other stored session
\* as it was; the session it returns is never an expired one, not even for its
\* owner.
C20_SweepOnAccess ==
    [][ last'.op = "get_or_create_session" =>
          /\ _sessions' = (_sessions \ Expired) \cup {last'.ret}
          /\ \A sid \in _sessions \ Expired : heap'[sid] = heap[sid]
          /\ last'.ret \notin Expired
          /\ ~(now > heap'[last'.ret].last_activity + 24) ]_vars

\* the owner named a session that was swept; a session exactly 24 hours idle stayed
C20_Witness ==
    /\ last.op = "get_or_create_session"
    /\ last.session_id \in 1..(nextId - 1)
    /\ last.session_id \notin _sessions
    /\ last.ret # last.session_id
    /\ ticks = 2
    /\ \E sid \in _sessions : now = heap[sid].last_activity + 24

\* C21: get_session and delete_session, like get_or_create_session, check
\* that the requesting user owns the session and act as if it did not exist
\* when it does not: for no requester other than the owner is a stored session
\* returned or deleted.
C21_OwnerCheckedLookups ==
    [][ \A u \in Users :
          LET sid == last'.session_id
          IN  /\ (/\ last'.op = "get_session"
                  /\ sid \in _sessions
                  /\ heap[sid].user_id # u) => last'.ret = NoId
              /\ (/\ last'.op = "delete_session"
                  /\ sid \in _sessions
                  /\ heap[sid].user_id # u) => /\ last'.ret = FALSE
                                               /\ sid \in _sessions' ]_vars

\* C22: the owner resumes a live session with a new message: the first model
\* call of the turn gets the system prompt, then the messages the session kept
\* from earlier turns in their order, then the new user message, and the
\* session id on the stream is the one supplied.
C22_ResumeKeepsHistory ==
    [][ \A p \in Procs :
          LET f == turn[p]
              g == turn'[p]
          IN  /\ (f.pc = "begin" /\ g.pc = "build" /\ Resumable(f.user_id, f.session_id)) =>
                    /\ g.session = f.session_id
                    /\ Len(heap[f.session_id].messages) < HistoryCap =>
                          heap'[g.session].messages
                             = Append(heap[f.session_id].messages,
                                      Message("user", f.message, <<>>))
              /\ (f.pc = "build" /\ g.pc = "create" /\ f.session = f.session_id) =>
                    /\ g.calls = 1
                    /\ g.messages = <<Message("system", SYSTEM_PROMPT, <<>>)>>
                                       \o heap[f.session].messages
                    /\ g.messages[Len(g.messages)] = Message("user", f.message, <<>>)
                    /\ g.events[1].session_id = f.session_id ]_vars

\* the second turn on a session that holds a question and its answer
C22_Witness ==
    \E p \in Procs :
        LET f == turn[p]
        IN  /\ f.pc = "create" /\ f.calls = 1
            /\ f.session_id # NoId /\ f.session = f.session_id
            /\ f.messages = <<Message("system", SYSTEM_PROMPT, <<>>),
                              Message("user", <<"hi">>, <<>>),
                              Message("assistant", <<"a">>, <<>>),
                              Message("user", <<"hi">>, <<>>)>>

\* the events of the round in progress: those after the last tool_call event
RoundEvents(f) ==
    LET before == EventsOfType(f, "tool_call")
        from == IF before = {} THEN 1
                ELSE 1 + CHOOSE i \in before : \A j \in before : j <= i
    IN  SubSeq(f.events, from, Len(f.events))

\* C23: each non-empty content fragment of a round gives exactly one content
\* event with exactly that fragment, out before the next fragment is read; the
\* content events of the round are in arrival order, none dropped, doubled or
\* merged, and they concatenate to the accumulated content of the round.
C23_FragmentsRelayed ==
    [][ \A p \in Procs :
          LET f == turn[p]
              g == turn'[p]
          IN  /\ (f.pc = "stream" /\ g.pc = "relayed") =>
                    /\ g.delta.content # <<>>
                    /\ g.events = Append(f.events, [type |-> "content",
                                                    content |-> g.delta.content])
                    /\ g.full_content = f.full_content \o g.delta.content
              /\ (f.pc = "stream" /\ g.pc = "stream") =>
                    /\ g.events = f.events
                    /\ g.full_content = f.full_content
              /\ f.pc = "relayed" =>
                    /\ f.events[Len(f.events)].type = "content"
                    /\ g.pc \in {"relayed", "stream"}
                    /\ g.events = f.events
                    /\ g.full_content = f.full_content
              /\ f.pc \notin {"stream", "begin", "idle", "done"} =>
                    EventsOfType(g, "content") = EventsOfType(f, "content")
              /\ g.pc \in {"stream", "relayed"} =>
                    Relayed(RoundEvents(g)) = g.full_content ]_vars

\* two different fragments in the second round of a turn
C23_Witness ==
    \E p \in Procs :
        LET f == turn[p]
            n == Len(f.events)
        IN  /\ f.pc = "relayed" /\ f.iteration = 1
            /\ f.full_content = <<"a", "b">>
            /\ n >= 4
            /\ f.events[n - 1] = [type |-> "content", content |-> <<"a">>]
            /\ f.events[n] = [type |-> "content", content |-> <<"b">>]
            /\ f.events[n - 2].type = "tool_call"

\* C24: the tool calls of a round are finalized only when the stream of the
\* round has been consumed to its end: before that no tool_call event is out and
\* no handler runs, the content events of the round come before its tool_call
\* events, and when the stream fails none of the calls gathered so far is
\* announced or run.
C24_FinalizedAfterStream ==
    [][ \A p \in Procs :
          LET f == turn[p]
              g == turn'[p]
          IN  /\ g.pc \in {"create", "stream", "relayed"} =>
                    /\ g.tool_calls_data = <<>> \/ g.pc = "create"
                    /\ \A j \in 1..Len(g.invoked) : g.invoked[j].round < g.iteration
                    /\ f.pc \in {"stream", "relayed"} =>
                          /\ EventsOfType(g, "tool_call") = EventsOfType(f, "tool_call")
                          /\ g.invoked = f.invoked
              /\ (/\ f.pc \in {"stream", "relayed"}
                  /\ EventsOfType(g, "tool_call") # EventsOfType(f, "tool_call")) =>
                    /\ f.pc = "stream"
                    /\ g.current_tools = f.current_tools
                    /\ g.full_content = f.full_content
                    /\ g.tool_calls_data = values(f.current_tools)
              /\ (f.pc \in {"dispatch", "handler"} /\ g.iteration = f.iteration) =>
                    \A i \in (Len(f.events) + 1)..Len(g.events) : g.events[i].type # "content"
              /\ GatewayErrors(g) # {} =>
                    /\ EventsOfType(g, "tool_call") = EventsOfType(f, "tool_call")
                    /\ g.invoked = f.invoked
                    /\ \A j \in 1..Len(g.invoked) : g.invoked[j].round < g.iteration ]_vars

\* the stream failed after two tool calls had been gathered
C24_Witness ==
    \E p \in Procs :
        LET f == turn[p]
        IN  /\ f.pc = "done"
            /\ GatewayErrors(f) # {}
            /\ Len(f.current_tools) = 2
            /\ EventsOfType(f, "tool_call") = {}
            /\ f.invoked = <<>>

\* the assistant messages of a list that carry tool calls
ToolRounds(msgs) ==
    {k \in 1..Len(msgs) : msgs[k].role = "assistant" /\ msgs[k].tool_calls # <<>>}

\* every assistant message with tool calls is followed at once by one tool
\* message per call, in call order and under the call's id, and every tool
\* message is one of those
Paired(msgs) ==
    /\ \A k \in ToolRounds(msgs) :
          LET n == Len(msgs[k].tool_calls)
          IN  /\ k + n <= Len(msgs)
              /\ \A i \in 1..n :
                    /\ msgs[k + i].role = "tool"
                    /\ msgs[k + i].tool_call_id = msgs[k].tool_calls[i].id
              /\ k + n < Len(msgs) => msgs[k + n + 1].role # "tool"
    /\ \A j \in 1..Len(msgs) :
          msgs[j].role = "tool" =>
             \E k \in ToolRounds(msgs) : k < j /\ j <= k + Len(msgs[k].tool_calls)

\* C25: at every model call after the first round of a turn the message list
\* starts with the system prompt and holds, for each earlier round, the
\* assistant message with the round's tool calls followed at once by exactly
\* one tool message per call, in call order, each under its call's id.
C25_CallsPairedWithResults ==
    \A p \in Procs :
        LET f == turn[p]
        IN  (f.pc = "create" /\ f.iteration >= 1) =>
               /\ f.messages[1] = Message("system", SYSTEM_PROMPT, <<>>)
               /\ Cardinality(ToolRounds(f.messages)) = f.iteration
               /\ Paired(f.messages)
               /\ ResultsInOrder(f, Len(f.tool_calls_data))

\* the third model call, after a round of three calls: one ran, one raised
\* while binding its arguments, one had no handler
C25_Witness ==
    \E p \in Procs :
        LET f == turn[p]
        IN  /\ f.pc = "create" /\ f.iteration = 2
            /\ \E k \in ToolRounds(f.messages) : Len(f.messages[k].tool_calls) = 3
            /\ \E j \in 1..Len(f.messages) :
                   f.messages[j].role = "tool" /\ f.messages[j].content = UnknownTool
            /\ \E j \in 1..Len(f.messages) :
                   f.messages[j].role = "tool" /\ f.messages[j].content = ToolError

\* C26: the finalized tool calls of a round are in ascending order of their
\* call index, in whatever order the fragments came: when index 1 comes before
\* index 0, call 0 is still announced and dispatched first.
C26_AscendingIndex ==
    \A p \in Procs :
        LET f == turn[p]
        IN  f.tool_calls_data # <<>> =>
               /\ f.tool_calls_data = values(f.current_tools)
               /\ \A i, j \in 1..Len(f.current_tools) :
                     i < j => f.current_tools[i].index < f.current_tools[j].index

RECURSIVE ArgumentsOf(_, _)
\* the argument pieces sent under a call index, joined in arrival order
ArgumentsOf(fed, index) ==
    IF fed = <<>> THEN <<>>
    ELSE (IF Head(fed).index = index THEN Head(fed).arguments ELSE <<>>)
         \o ArgumentsOf(Tail(fed), index)

Latest(S) == CHOOSE k \in S : \A j \in S : j <= k

\* the last non-empty id and the last non-empty name sent under a call index
IdOf(fed, index) ==
    LET S == {k \in 1..Len(fed) : fed[k].index = index /\ fed[k].id # ""}
    IN  IF S = {} THEN "" ELSE fed[Latest(S)].id
NameOf(fed, index) ==
    LET S == {k \in 1..Len(fed) : fed[k].index = index /\ fed[k].name # ""}
    IN  IF S = {} THEN "" ELSE fed[Latest(S)].name

\* C27: for each call index seen in the stream of a round exactly one tool call
\* is built: its arguments are the pieces sent under that index joined in
\* arrival order, its id and name the last non-empty ones sent under that
\* index; pieces of other indices or without an index never change it; and the
\* finalized list holds exactly these calls.
C27_OneCallPerIndex ==
    \A p \in Procs :
        LET f == turn[p]
            ct == f.current_tools
        IN  /\ (last.op = "fragment" /\ f.pc = "stream") =>
                  LET fed == last.fed
                      seen == {fed[k].index : k \in 1..Len(fed)} \ {NoIndex}
                  IN  /\ {ct[i].index : i \in 1..Len(ct)} = seen
                      /\ Len(ct) = Cardinality(seen)
                      /\ \A i \in 1..Len(ct) :
                            /\ ct[i].arguments = ArgumentsOf(fed, ct[i].index)
                            /\ ct[i].id = IdOf(fed, ct[i].index)
                            /\ ct[i].name = NameOf(fed, ct[i].index)
            /\ f.tool_calls_data # <<>> =>
                  /\ Len(f.tool_calls_data) = Len(ct)
                  /\ \A i \in 1..Len(ct) :
                        f.tool_calls_data[i] = [id |-> ct[i].id, name |-> ct[i].name,
                                                arguments |-> ct[i].arguments]

\* two calls whose pieces alternate, a piece without an index in between, the
\* id and name of the first call sent twice
C27_Witness ==
    \E p \in Procs :
        LET f == turn[p]
        IN  /\ last.op = "fragment" /\ f.pc = "stream"
            /\ Len(last.fed) = 4
            /\ last.fed[1].index = 0 /\ last.fed[2].index = 1
            /\ last.fed[3].index = NoIndex /\ last.fed[4].index = 0
            /\ last.fed[1].name = "bogus" /\ last.fed[4].name = "list_tasks"
            /\ Len(f.current_tools) = 2
            /\ f.current_tools[1] = [index |-> 0, id |-> CallId(0), name |-> "list_tasks",
                                      arguments |-> <<"{", "}">>]

\* C28: add_message sets last_activity to the time of the append: last_activity
\* never decreases and is the time of the latest append, or of the creation when
\* there was none; a session is not swept or taken for expired within 24 hours
\* of its latest append, and is swept only strictly after that.
C28_ActivityKeepsAlive ==
    [][ /\ last'.op = "add_message" =>
              heap'[last'.session_id].last_activity = now
        /\ \A sid \in (DOMAIN heap) \cap (DOMAIN heap') :
              /\ heap'[sid].last_activity >= heap[sid].last_activity
              /\ heap'[sid].last_activity # heap[sid].last_activity =>
                    last'.op = "add_message" /\ last'.session_id = sid
        /\ \A sid \in (DOMAIN heap') \ (DOMAIN heap) :
              heap'[sid].last_activity = now /\ heap'[sid].messages = <<>>
        /\ last'.op = "get_or_create_session" =>
              /\ \A sid \in _sessions :
                    sid \notin _sessions' <=> now > heap[sid].last_activity + 24
              /\ (/\ last'.session_id \in _sessions
                  /\ heap[last'.session_id].user_id = last'.user_id
                  /\ now <= heap[last'.session_id].last_activity + 24) =>
                    last'.ret = last'.session_id ]_vars

\* a session created at 0, appended to an hour later, resumed 24 hours after
\* the append: 25 hours after its creation
C28_Witness ==
    /\ last.op = "get_or_create_session"
    /\ last.ret = last.session_id
    /\ heap[last.ret].created_at = 0
    /\ heap[last.ret].last_activity = 1
    /\ heap[last.ret].messages # <<>>
    /\ now = 25

\* C30: the stream stops being consumed while a round dispatches its tools: the
\* call whose tool_call event is already out is still run to completion, and
\* the session of the turn holds whole messages only, its user message and no
\* partial assistant message.
C30_DropCompletesDispatch ==
    \A p \in Procs :
        LET f == turn[p]
            c == f.tool_calls_data[f.tc]
            m == SessionMessages(f)
        IN  (f.pc = "closed" /\ LastEventIs(f, "tool_call")) =>
               /\ (c.name \in TOOL_HANDLERS /\ binds(c.name, json_loads(c.arguments))) =>
                     \E j \in 1..Len(f.invoked) :
                         /\ f.invoked[j].round = f.iteration
                         /\ f.invoked[j].id = c.id
                         /\ f.invoked[j].outcome \in {"returned", "raised"}
               /\ m[Len(m)] = Message("user", f.message, <<>>)

\* what a turn of caller p on a session s of its own leaves behind when it runs
\* alone: with or without the content fragment, with or without the tool call
Alone(p, s, c, t) ==
    [events |-> <<FirstEvent(s)>>
                \o (IF c THEN <<ContentEvent(<<"a">>)>> ELSE <<>>)
                \o (IF t THEN <<ToolCallEvent([id |-> CallId(0), name |-> PlainCall[1],
                                               arguments |-> PlainCall[2]])>>
                         ELSE <<>>)
                \o <<DoneEvent>>,
     messages |-> <<Message("user", TextOf(p), <<>>),
                    Message("assistant", IF c /\ ~t THEN <<"a">> ELSE <<>>, <<>>)>>]
OnSession(frames, s) == {q \in Procs : frames[q].pc # "idle" /\ frames[q].session = s}
Stepped == {q \in Procs : turn'[q] # turn[q]}

\* C29: turns on different sessions do not affect each other.  A step that is not
\* a step of a turn on session s leaves every frame on s and the object of s as
\* they were, and a sweep made by it keeps s in the store unless s has expired;
\* and a finished turn that had its session to itself has emitted the events and
\* stored the messages of a turn that ran alone.
C29_SessionsIndependent ==
    [][/\ \A s \in DOMAIN heap :
            (\A q \in Stepped : turn'[q].session # s) =>
                /\ \A p \in OnSession(turn, s) :
                        /\ turn'[p] = turn[p]
                        /\ s \in DOMAIN heap' /\ heap'[s] = heap[s]
                /\ (s \in _sessions /\ ~is_expired(heap[s], now)) =>
                        /\ s \in _sessions'
                        /\ heap'[s] = heap[s]
       /\ \A p \in Procs :
            (turn'[p].pc = "done" /\ OnSession(turn', turn'[p].session) = {p}) =>
                \E c \in BOOLEAN :
                    LET a == Alone(p, turn'[p].session, c, turn'[p].invoked # <<>>)
                    IN  /\ turn'[p].events = a.events
                        /\ heap'[turn'[p].session].messages = a.messages]_vars

\* the session left behind has been swept by the second caller's request while
\* the first caller, who began an hour into it, waits for its tool handler
C29_Witness ==
    /\ now = 1 + timeout_hours
    /\ nextId = 4
    /\ 1 \notin _sessions
    /\ turn["p1"].pc = "handler"
    /\ turn["p1"].session \in _sessions
    /\ heap[turn["p1"].session].last_activity = 1
    /\ turn["p2"].pc = "build"
    /\ turn["p2"].session \in _sessions \ {turn["p1"].session}

====
